---- MODULE Spec2Model ----
(***************************************************************************)
(* A model of install/install.py, the HelioViewer database population      *)
(* script: one run of main() against a relational store.                   *)
(*                                                                         *)
(* The store (MySQLdb cursor) and the filesystem are the environment: a    *)
(* query or an insert may succeed or raise MySQLdb.Error; the directory    *)
(* listing, dict iteration and glob orders are arbitrary.  Python          *)
(* exceptions that no handler of the script catches end the run.           *)
(***************************************************************************)
EXTENDS Integers, Sequences, FiniteSets, TLC

(* ------------------------------ bounds -------------------------------- *)

\* at most this many files under the root directory
MaxFiles == 3
\* the image table holds rows 0..k-1 before the run, for some k up to this
MaxExistingRows == 2
\* the store's AUTO_INCREMENT counter is at most this far ahead of max(id)
MaxAutoIncGap == 1

(* ------------------------- python primitives -------------------------- *)

Min(a, b) == IF a < b THEN a ELSE b
Max(a, b) == IF a > b THEN a ELSE b

\* s[a:b] for 0 <= a, 0 <= b: python clamps both ends to len(s)
Slice(s, a, b) ==
    LET lo == Min(a, Len(s))
        hi == Min(b, Len(s))
    IN  IF lo >= hi THEN "" ELSE SubSeq(s, lo + 1, hi)

\* s[-k:]
Suffix(s, k) == Slice(s, Max(Len(s) - k, 0), Len(s))

\* s[:-k]
DropLast(s, k) == Slice(s, 0, Max(Len(s) - k, 0))

StartsWith(s, p) == Slice(s, 0, Len(p)) = p

Digits == {"0", "1", "2", "3", "4", "5", "6", "7", "8", "9"}

DigitChar(d) == SubSeq("0123456789", d + 1, d + 1)

DigitVal(c) == CHOOSE d \in 0..9 : DigitChar(d) = c

RECURSIVE LStrip(_)
LStrip(s) == IF Len(s) > 0 /\ SubSeq(s, 1, 1) = " "
             THEN LStrip(SubSeq(s, 2, Len(s))) ELSE s

RECURSIVE RStrip(_)
RStrip(s) == IF Len(s) > 0 /\ SubSeq(s, Len(s), Len(s)) = " "
             THEN RStrip(SubSeq(s, 1, Len(s) - 1)) ELSE s

\* the digits of an int() argument: surrounding blanks and one sign removed
Unsigned(s) ==
    LET t == LStrip(RStrip(s))
    IN  IF Len(t) > 0 /\ SubSeq(t, 1, 1) \in {"+", "-"}
        THEN SubSeq(t, 2, Len(t)) ELSE t

\* int(s) returns a value; otherwise it raises ValueError
IsIntLiteral(s) ==
    LET u == Unsigned(s)
    IN  Len(u) > 0 /\ \A i \in 1..Len(u) : SubSeq(u, i, i) \in Digits

RECURSIVE NatVal(_)
NatVal(u) == IF Len(u) = 0 THEN 0
             ELSE 10 * NatVal(SubSeq(u, 1, Len(u) - 1))
                  + DigitVal(SubSeq(u, Len(u), Len(u)))

IntVal(s) ==
    LET t == LStrip(RStrip(s))
    IN  IF Len(t) > 0 /\ SubSeq(t, 1, 1) = "-"
        THEN 0 - NatVal(Unsigned(s)) ELSE NatVal(Unsigned(s))

\* str(n)
RECURSIVE NatStr(_)
NatStr(n) == IF n < 10 THEN DigitChar(n)
             ELSE NatStr(n \div 10) \o DigitChar(n % 10)

IntStr(n) == IF n < 0 THEN "-" \o NatStr(0 - n) ELSE NatStr(n)

\* s.rjust(w, c)
RECURSIVE Rjust(_, _, _)
Rjust(s, w, c) == IF Len(s) >= w THEN s ELSE Rjust(c \o s, w, c)

\* datetime.datetime(year, mon, day, hour, min, sec) raises ValueError
\* outside these ranges
IsLeap(y) == (y % 4 = 0) /\ ((y % 100 # 0) \/ (y % 400 = 0))

DaysInMonth(y, m) ==
    IF m = 2 THEN (IF IsLeap(y) THEN 29 ELSE 28)
    ELSE IF m \in {4, 6, 9, 11} THEN 30 ELSE 31

ValidDate(y, m, d, h, mi, s) ==
    /\ y \in 1..9999
    /\ m \in 1..12
    /\ d >= 1 /\ d <= DaysInMonth(y, m)
    /\ h \in 0..23
    /\ mi \in 0..59
    /\ s \in 0..59

\* str(datetime): 'YYYY-MM-DD HH:MM:SS'
DateStr(y, m, d, h, mi, s) ==
    Rjust(IntStr(y), 4, "0") \o "-" \o Rjust(IntStr(m), 2, "0") \o "-"
    \o Rjust(IntStr(d), 2, "0") \o " " \o Rjust(IntStr(h), 2, "0") \o ":"
    \o Rjust(IntStr(mi), 2, "0") \o ":" \o Rjust(IntStr(s), 2, "0")

\* a nullable column: NULL, or a value
NULL == <<>>
Some(v) == <<v>>

(* --------------------------- the environment --------------------------- *)

\* Names follow the layout the fixed offsets of lines 74-83 and 121-130 read:
\* YYYY_MM_DD_HHMMSS_OBSV_INS_DET_MEA
StemA == "2003_10_05_000000_SOHO_EIT_EIT_195"
StemB == "2003_10_05_003000_SOHO_LAS_0C2_0WL"
\* a detector+measurement pair no measurement row has
StemC == "2003_10_05_010000_SOHO_MDI_MDI_mag"
\* a letter in the month field
StemD == "2003_1x_05_000000_SOHO_EIT_EIT_195"
\* month 13: every field is a number, the timestamp is not a calendar date
StemE == "2003_13_05_000000_SOHO_EIT_EIT_195"
\* shorter than the layout
StemF == "2003"

Universe ==
    { StemA \o ".jp2", StemB \o ".jp2", StemC \o ".jp2", StemE \o ".jp2",
      StemA \o "_10.meta", StemA \o "_11.meta", StemB \o "_10.meta",
      StemC \o "_10.meta", StemD \o "_10.meta", StemF \o "_10.meta",
      StemA \o "_10_000_000.jpg", StemA \o "_11_000_001.jpg",
      StemA \o "_10_00x_000.jpg", StemB \o "_10_000_000.png" }

\* what open(tile, 'rb').read() returns
Content(name) ==
    IF Suffix(name, 3) = "png" THEN "PNG"
    ELSE IF Suffix(name, 7) = "001.jpg" THEN ""
    ELSE "JF'IF"

\* the rows of measurement LEFT JOIN detector; the join leaves detector NULL
\* for a measurement whose detectorId matches no detector
MeasurementRows ==
    { [detector |-> Some("EIT"), measurement |-> "195", measurementId |-> 1],
      [detector |-> Some("0C2"), measurement |-> "0WL", measurementId |-> 2] }

OrphanRow == [detector |-> NULL, measurement |-> "171", measurementId |-> 3]

MeasStores == { MeasurementRows, MeasurementRows \cup {OrphanRow} }

ExistingRow(i) ==
    [id |-> i, measurementId |-> 1, date |-> "2003-01-01 00:00:00",
     filetype |-> "jpg"]

ExistingTables ==
    { {ExistingRow(i) : i \in 0..(k - 1)} : k \in 0..MaxExistingRows }
    \cup { {ExistingRow(41)} }

BaseurlInputs == {"", "http://host/tiles"}

(* ------------------------------ state --------------------------------- *)

VARIABLES
    files,          \* the files under the root directory
    storageMethod,  \* what getStorageReqs returned
    measStore,      \* the store's measurement/detector join
    imageTable,     \* the store's image rows
    tileTable,      \* the store's tile rows
    preexisting,    \* the image rows the store held when the run began
    pc,             \* where the run is
    jp2Todo,        \* jp2 stems the loop of line 71 has yet to visit
    images,         \* processMetaFiles' dict: image -> zoom levels
    imgTodo,        \* keys the loop of line 118 has yet to visit
    measurementIds, \* the dict getMeasurementIds returned
    id,             \* processImages' id
    baseurl,        \* processImages' baseurl
    img,            \* the image the tile loop works for
    tileTodo,       \* tiles the loop of line 159 has yet to visit
    exc,            \* the uncaught exception that ended the run, or "none"
    site,           \* the expression that raised it
    assigned,       \* the ids of the image INSERTs of processImages, in order
    attempted,      \* the records whose INSERT was handed to the store
    rejected,       \* the records whose INSERT the store rejected
    idQueries       \* how many times the max-id query ran

inputVars == <<files, storageMethod, measStore, preexisting>>
storeVars == <<imageTable, tileTable>>
jp2Vars   == <<jp2Todo>>
imgVars   == <<images, imgTodo, id, baseurl, img, tileTodo, assigned, idQueries>>
logVars   == <<attempted, rejected>>
excVars   == <<exc, site>>

vars == <<files, storageMethod, measStore, imageTable, tileTable, preexisting,
          pc, jp2Todo, images, imgTodo, measurementIds, id, baseurl, img,
          tileTodo, exc, site, assigned, attempted, rejected, idQueries>>

(* ----------------------- traversal and grouping ----------------------- *)

\* traverseDirectory: the stems of the files that end in "meta"
MetaStems(fs) == { DropLast(n, 5) : n \in { f \in fs : Suffix(f, 4) = "meta" } }

\* traverseDirectory: the stems of the files that end in "jp2" (and not "meta")
JP2Stems(fs) ==
    { DropLast(n, 4) : n \in { f \in fs : Suffix(f, 4) # "meta"
                                          /\ Suffix(f, 3) = "jp2" } }

\* processMetaFiles: image = file[:-3], zoomlevel = file[-2:]
processMetaFiles(meta) ==
    LET keys == { DropLast(m, 3) : m \in meta }
    IN  [ k \in keys |-> { Suffix(m, 2) : m \in { x \in meta : DropLast(x, 3) = k } } ]

\* glob.glob(img + "*") filtered by line 160
GlobTiles(fs, image) ==
    { t \in fs : StartsWith(t, image) /\ Suffix(t, 4) # "meta"
                 /\ Suffix(t, 3) # "jp2" }

(* --------------------------- filename fields -------------------------- *)

\* the six substrings lines 74-79 and 121-126 hand to int()
DateFields(file) ==
    << Slice(file, 0, 4), Slice(file, 5, 7), Slice(file, 8, 10),
       Slice(file, 11, 13), Slice(file, 13, 15), Slice(file, 15, 17) >>

IntsParse(file) == \A i \in 1..6 : IsIntLiteral(DateFields(file)[i])

\* lines 74-83 and 121-130, when every int() returned
Fields(file) ==
    [ year |-> IntVal(DateFields(file)[1]), mon  |-> IntVal(DateFields(file)[2]),
      day  |-> IntVal(DateFields(file)[3]), hour |-> IntVal(DateFields(file)[4]),
      min  |-> IntVal(DateFields(file)[5]), sec  |-> IntVal(DateFields(file)[6]),
      obs  |-> Slice(file, 18, 22), inst |-> Slice(file, 23, 26),
      det  |-> Slice(file, 27, 30), meas |-> Slice(file, 31, 34) ]

DateOk(f) == ValidDate(f.year, f.mon, f.day, f.hour, f.min, f.sec)

DateOf(f) == DateStr(f.year, f.mon, f.day, f.hour, f.min, f.sec)

\* line 137
FileType(f) == IF f.inst = "LAS" THEN "png" ELSE "jpg"

\* lines 162-164
TileFields(tile_name) ==
    [ zoom |-> Slice(tile_name, 35, 37), x |-> Slice(tile_name, 38, 41),
      y |-> Slice(tile_name, 42, 45) ]

TileIntsParse(t) ==
    IsIntLiteral(t.x) /\ IsIntLiteral(t.y) /\ IsIntLiteral(t.zoom)

(* ------------------------------ the store ----------------------------- *)

ImageIds(table) == { r.id : r \in table }

MaxOf(S) == CHOOSE m \in S : \A x \in S : x <= m

\* the ids the store may give a row inserted with id NULL
AutoIds(table) ==
    LET top == IF table = {} THEN 0 ELSE MaxOf(ImageIds(table))
    IN  { Max(top, 0) + k : k \in 1..MaxAutoIncGap }

\* SELECT id FROM image ORDER BY id DESC LIMIT 1, then fetchone()
SelectMaxId(table) ==
    IF table = {} THEN NULL ELSE Some(MaxOf(ImageIds(table)))

\* an image row with this id is accepted only if no row has the id
MayAcceptImage(table, i) == i \notin ImageIds(table)

(* ------------------------- getMeasurementIds -------------------------- *)

\* lines 208-213: measurements[meas[0] + meas[1]] = meas[2] for every row
\* (None + str raises TypeError)
RowsConcatenate(rows) == \A r \in rows : r.detector # NULL

BuildMeasurements(rows) ==
    [ k \in { r.detector[1] \o r.measurement : r \in rows } |->
        (CHOOSE r \in rows : r.detector[1] \o r.measurement = k).measurementId ]

(* --------------------------- getStartingId ---------------------------- *)

\* line 231 without the increment
getStartingId_NoIncrement(result) ==
    IF result # NULL THEN result[1] ELSE 0

\* line 231 starting at 1 on an empty table
getStartingId_FromOne(result) ==
    IF result # NULL THEN result[1] + 1 ELSE 1

\* line 231: (int(result[0]) + 1) if result else 0
getStartingId(result) ==
    IF result # NULL THEN result[1] + 1 ELSE 0

\* lines 113-116
NormalizeBaseurl(input) ==
    LET b == IF input = "" THEN "http://localhost/tiles/" ELSE input
    IN  IF Suffix(b, 1) # "/" THEN b \o "/" ELSE b

(* ------------------------- the tile statement ------------------------- *)

\* MySQLdb.escape_string: a backslash before each quote and backslash
RECURSIVE EscapeString(_)
EscapeString(b) ==
    IF Len(b) = 0 THEN ""
    ELSE LET c == SubSeq(b, 1, 1)
         IN  (IF c \in {"'", "\"", "\\"} THEN "\\" \o c ELSE c)
             \o EscapeString(SubSeq(b, 2, Len(b)))

\* the base up to and including its last "/"
RECURSIVE UpToLastSlash(_)
UpToLastSlash(b) ==
    IF Len(b) = 0 \/ SubSeq(b, Len(b), Len(b)) = "/" THEN b
    ELSE UpToLastSlash(SubSeq(b, 1, Len(b) - 1))

\* urljoin(baseurl, filepath) for a relative filepath
Urljoin(base, path) == UpToLastSlash(base) \o path

\* lines 170-172
FilePath(file, f, t) ==
    IntStr(f.year) \o "/" \o Rjust(IntStr(f.mon), 2, "0") \o "/"
    \o Rjust(IntStr(f.day), 2, "0") \o "/" \o Rjust(IntStr(f.hour), 2, "0") \o "/"
    \o f.obs \o "/" \o f.inst \o "/" \o f.det \o "/" \o f.meas \o "/"
    \o file \o "_" \o t.zoom \o "_" \o t.x \o "_" \o t.y \o "." \o FileType(f)

\* lines 176-183 with the filesystem statement issued under "both" as well
TileSql_BothAsFilesystem(method, imageId, t, url, blob) ==
    [ imageId |-> imageId, x |-> IntVal(t.x), y |-> IntVal(t.y),
      zoom |-> IntVal(t.zoom),
      url |-> IF method = "database" THEN NULL ELSE Some(url),
      content |-> IF method = "database" THEN Some(EscapeString(blob)) ELSE NULL ]

\* lines 176-183: the values of the INSERT INTO tile statement
TileSql(method, imageId, t, url, blob) ==
    [ imageId |-> imageId, x |-> IntVal(t.x), y |-> IntVal(t.y),
      zoom |-> IntVal(t.zoom),
      url |-> IF method = "database" THEN NULL ELSE Some(url),
      content |-> IF method = "filesystem" THEN NULL
                  ELSE Some(EscapeString(blob)) ]

(* ------------------------------ the run ------------------------------- *)

StorageMethods == {"filesystem", "database", "both"}

InitFiles == { S \in SUBSET Universe : Cardinality(S) <= MaxFiles }

\* the state at line 17: the tree is scanned and grouped, the prompts answered
Init ==
    /\ files \in InitFiles
    /\ storageMethod \in StorageMethods
    /\ measStore \in MeasStores
    /\ preexisting \in ExistingTables
    /\ imageTable = preexisting
    /\ tileTable = {}
    /\ pc = "main"
    /\ jp2Todo = JP2Stems(files)
    /\ images = processMetaFiles(MetaStems(files))
    /\ imgTodo = DOMAIN processMetaFiles(MetaStems(files))
    /\ measurementIds = BuildMeasurements({})
    /\ id = 0
    /\ baseurl = ""
    /\ img = ""
    /\ tileTodo = {}
    /\ exc = "none"
    /\ site = ""
    /\ assigned = <<>>
    /\ attempted = {}
    /\ rejected = {}
    /\ idQueries = 0

\* an exception no handler catches: the run ends there
Raise(e, s) == pc' = "aborted" /\ exc' = e /\ site' = s

\* the except clause re-raising instead of printing
ExceptMySQLError_Reraise(next) == Raise("MySQLdb.Error", "cursor.execute(insert)")

\* lines 95-96, 145-146, 190-191: print the error and go on
ExceptMySQLError(next) == pc' = next /\ UNCHANGED excVars

AfterJP2 == IF DOMAIN images # {} THEN "img_setup" ELSE "done"

\* lines 17-26: connect, then the two phases that have work
Main ==
    /\ pc = "main"
    /\ \/ Raise("MySQLdb.Error", "MySQLdb.connect")
       \/ /\ pc' = IF jp2Todo # {} THEN "jp2_setup" ELSE AfterJP2
          /\ UNCHANGED excVars
    /\ UNCHANGED <<inputVars, storeVars, jp2Vars, imgVars, logVars, measurementIds>>

\* lines 195-215, called at line 69 and at line 108
GetMeasurementIds(at, next) ==
    /\ pc = at
    /\ \/ /\ Raise("UnboundLocalError", "result_array")
          /\ UNCHANGED measurementIds
       \/ /\ ~RowsConcatenate(measStore)
          /\ Raise("TypeError", "meas[0] + meas[1]")
          /\ UNCHANGED measurementIds
       \/ /\ RowsConcatenate(measStore)
          /\ measurementIds' = BuildMeasurements(measStore)
          /\ pc' = next
          /\ UNCHANGED excVars
    /\ UNCHANGED <<inputVars, storeVars, jp2Vars, imgVars, logVars>>

JP2GetMeasurementIds == GetMeasurementIds("jp2_setup", "jp2_loop")

ImgGetMeasurementIds == GetMeasurementIds("img_setup", "img_start")

\* lines 71-96: one iteration of the loop over the jp2 stems
ProcessJP2 ==
    /\ pc = "jp2_loop"
    /\ \E stem \in jp2Todo :
         LET f == Fields(stem)
         IN  IF ~IntsParse(stem)
             THEN /\ Raise("ValueError", "int(file[a:b])")
                  /\ UNCHANGED <<storeVars, jp2Vars, logVars>>
             ELSE IF ~DateOk(f)
             THEN /\ Raise("ValueError", "datetime.datetime")
                  /\ UNCHANGED <<storeVars, jp2Vars, logVars>>
             ELSE IF (f.det \o f.meas) \notin DOMAIN measurementIds
             THEN /\ Raise("KeyError", "measurementIds[det + meas]")
                  /\ UNCHANGED <<storeVars, jp2Vars, logVars>>
             ELSE /\ attempted' = attempted \cup {<<"jp2", stem>>}
                  /\ jp2Todo' = jp2Todo \ {stem}
                  /\ \/ /\ \E new \in AutoIds(imageTable) :
                             imageTable' = imageTable \cup
                               {[ id |-> new,
                                  measurementId |-> measurementIds[f.det \o f.meas],
                                  date |-> DateOf(f), filetype |-> "jp2" ]}
                        /\ pc' = "jp2_loop"
                        /\ UNCHANGED <<excVars, rejected>>
                     \/ /\ rejected' = rejected \cup {<<"jp2", stem>>}
                        /\ ExceptMySQLError("jp2_loop")
                        /\ UNCHANGED imageTable
                  /\ UNCHANGED tileTable
    /\ UNCHANGED <<inputVars, imgVars, measurementIds>>

\* line 71 exhausted: back in main at line 23
JP2Done ==
    /\ pc = "jp2_loop"
    /\ jp2Todo = {}
    /\ pc' = AfterJP2
    /\ UNCHANGED <<inputVars, storeVars, jp2Vars, imgVars, logVars, excVars,
                   measurementIds>>

\* lines 109-116 with the starting id read from the table as it was before
\* the jp2 phase
GetStartingId_BeforeJP2 ==
    /\ pc = "img_start"
    /\ idQueries' = idQueries + 1
    /\ \/ /\ Raise("UnboundLocalError", "result")
          /\ UNCHANGED <<id, baseurl>>
       \/ /\ id' = getStartingId(SelectMaxId(preexisting))
          /\ IF storageMethod # "database"
             THEN \E input \in BaseurlInputs : baseurl' = NormalizeBaseurl(input)
             ELSE UNCHANGED baseurl
          /\ pc' = "img_loop"
          /\ UNCHANGED excVars
    /\ UNCHANGED <<inputVars, storeVars, jp2Vars, logVars, measurementIds,
                   images, imgTodo, img, tileTodo, assigned>>

\* lines 109-116: the starting id, then the base url prompt
GetStartingId ==
    /\ pc = "img_start"
    /\ idQueries' = idQueries + 1
    /\ \/ /\ Raise("UnboundLocalError", "result")
          /\ UNCHANGED <<id, baseurl>>
       \/ /\ id' = getStartingId(SelectMaxId(imageTable))
          /\ IF storageMethod # "database"
             THEN \E input \in BaseurlInputs : baseurl' = NormalizeBaseurl(input)
             ELSE UNCHANGED baseurl
          /\ pc' = "img_loop"
          /\ UNCHANGED excVars
    /\ UNCHANGED <<inputVars, storeVars, jp2Vars, logVars, measurementIds,
                   images, imgTodo, img, tileTodo, assigned>>

\* lines 118-146: the head of one iteration of the loop over images.keys()
ImageInsert ==
    /\ pc = "img_loop"
    /\ \E key \in imgTodo :
         LET f == Fields(key)
         IN  IF ~IntsParse(key)
             THEN /\ Raise("ValueError", "int(file[a:b])")
                  /\ UNCHANGED <<storeVars, logVars, imgTodo, img, tileTodo, assigned>>
             ELSE IF ~DateOk(f)
             THEN /\ Raise("ValueError", "datetime.datetime")
                  /\ UNCHANGED <<storeVars, logVars, imgTodo, img, tileTodo, assigned>>
             ELSE IF (f.det \o f.meas) \notin DOMAIN measurementIds
             THEN /\ Raise("KeyError", "measurementIds[det + meas]")
                  /\ UNCHANGED <<storeVars, logVars, imgTodo, img, tileTodo, assigned>>
             ELSE /\ attempted' = attempted \cup {<<"image", key>>}
                  /\ assigned' = Append(assigned, id)
                  /\ imgTodo' = imgTodo \ {key}
                  /\ img' = key
                  /\ tileTodo' = GlobTiles(files, key)
                  /\ \/ /\ MayAcceptImage(imageTable, id)
                        /\ imageTable' = imageTable \cup
                             {[ id |-> id,
                                measurementId |-> measurementIds[f.det \o f.meas],
                                date |-> DateOf(f), filetype |-> FileType(f) ]}
                        /\ pc' = "tile_loop"
                        /\ UNCHANGED <<excVars, rejected>>
                     \/ /\ rejected' = rejected \cup {<<"image", key>>}
                        /\ ExceptMySQLError("tile_loop")
                        /\ UNCHANGED imageTable
                  /\ UNCHANGED tileTable
    /\ UNCHANGED <<inputVars, jp2Vars, measurementIds, images, id, baseurl, idQueries>>

\* lines 159-191: one iteration of the loop over the image's tile files
TileInsert ==
    /\ pc = "tile_loop"
    /\ \E tile \in tileTodo :
         LET t == TileFields(tile)
             f == Fields(img)
             url == Urljoin(baseurl, FilePath(img, f, t))
         IN  IF ~TileIntsParse(t)
             THEN /\ Raise("ValueError", "int(x), int(y), int(zoom)")
                  /\ UNCHANGED <<storeVars, logVars, tileTodo>>
             ELSE /\ attempted' = attempted \cup {<<"tile", tile>>}
                  /\ tileTodo' = tileTodo \ {tile}
                  /\ \/ /\ tileTable' = tileTable \cup
                             {TileSql(storageMethod, id, t, url, Content(tile))}
                        /\ pc' = "tile_loop"
                        /\ UNCHANGED <<excVars, rejected>>
                     \/ /\ rejected' = rejected \cup {<<"tile", tile>>}
                        /\ ExceptMySQLError("tile_loop")
                        /\ UNCHANGED tileTable
                  /\ UNCHANGED imageTable
    /\ UNCHANGED <<inputVars, jp2Vars, measurementIds, images, imgTodo, id,
                   baseurl, img, assigned, idQueries>>

\* line 193 left out
ImageEnd_NoIncrement ==
    /\ pc = "tile_loop"
    /\ tileTodo = {}
    /\ pc' = "img_loop"
    /\ UNCHANGED <<inputVars, storeVars, jp2Vars, logVars, excVars, measurementIds,
                   images, imgTodo, id, baseurl, img, tileTodo, assigned, idQueries>>

\* line 193: the tile loop is exhausted, id += 1
ImageEnd ==
    /\ pc = "tile_loop"
    /\ tileTodo = {}
    /\ id' = id + 1
    /\ pc' = "img_loop"
    /\ UNCHANGED <<inputVars, storeVars, jp2Vars, logVars, excVars, measurementIds,
                   images, imgTodo, baseurl, img, tileTodo, assigned, idQueries>>

\* line 118 exhausted: processImages returns, main prints "Finished!"
ImagesDone ==
    /\ pc = "img_loop"
    /\ imgTodo = {}
    /\ pc' = "done"
    /\ UNCHANGED <<inputVars, storeVars, jp2Vars, imgVars, logVars, excVars,
                   measurementIds>>

Next ==
    \/ Main
    \/ JP2GetMeasurementIds
    \/ ProcessJP2
    \/ JP2Done
    \/ ImgGetMeasurementIds
    \/ GetStartingId
    \/ ImageInsert
    \/ TileInsert
    \/ ImageEnd
    \/ ImagesDone

Spec == Init /\ [][Next]_vars

(* ------------------------------ claims -------------------------------- *)

Terminated == pc \in {"done", "aborted"}

\* every record the batch holds: jp2 stems, images, and each image's tiles
AllRecords ==
    { <<"jp2", s>> : s \in JP2Stems(files) }
    \cup { <<"image", k>> : k \in DOMAIN images }
    \cup { <<"tile", t>> : t \in UNION { GlobTiles(files, k) : k \in DOMAIN images } }

\* a stem every field of which parses and whose key the store's join holds
WellFormed(stem) ==
    /\ IntsParse(stem)
    /\ DateOk(Fields(stem))

KnownKey(stem) ==
    \E r \in measStore :
        r.detector # NULL
        /\ r.detector[1] \o r.measurement = Fields(stem).det \o Fields(stem).meas

StemRecords ==
    { <<"jp2", s>> : s \in JP2Stems(files) } \cup { <<"image", k>> : k \in DOMAIN images }

\* the image ids the store held when the max-id query ran: the rows from
\* before the run and the jp2 rows of this run
QueryTimeIds ==
    ImageIds(preexisting \cup { r \in imageTable : r.filetype = "jp2" })

\* C1: in every reachable state, the imageId of every tile row in the store
\* is the id of an image row in the store.
C1_TilesHaveParent ==
    \A t \in tileTable : t.imageId \in ImageIds(imageTable)

\* C2: a stem whose detector+measurement key is absent from the lookup table
\* never ends the run (no KeyError escapes); no insert is issued for it; and
\* a run that reaches its end has issued the insert of every stem whose key
\* is known.
C2_UnknownMeasurementSkipped ==
    /\ exc # "KeyError"
    /\ \A rec \in StemRecords :
           (WellFormed(rec[2]) /\ ~KnownKey(rec[2])) => rec \notin attempted
    /\ pc = "done" =>
         \A rec \in StemRecords :
             (WellFormed(rec[2]) /\ KnownKey(rec[2])) => rec \in attempted

\* C3: when the measurement join query fails and the run aborts, the run has
\* inserted no image row and no tile row.
C3_ResolutionAbortsBeforeInserts ==
    (exc # "none" /\ site \in {"result_array", "meas[0] + meas[1]"})
        => (imageTable = preexisting /\ tileTable = {})

\* C4: a stem too short for the layout, or with a non-digit in a date field,
\* never ends the run (no ValueError escapes the field conversions); no
\* insert is issued for it; and a run that reaches its end has issued the
\* insert of every well-formed stem whose key is known.
C4_MalformedStemSkipped ==
    /\ ~(exc = "ValueError" /\ site = "int(file[a:b])")
    /\ \A rec \in StemRecords : ~IntsParse(rec[2]) => rec \notin attempted
    /\ pc = "done" =>
         \A rec \in StemRecords :
             (WellFormed(rec[2]) /\ KnownKey(rec[2])) => rec \in attempted

\* C5: a rejected insert never ends the run: the step in which the store
\* rejects an insert raises nothing and leaves the run in the loop it was in,
\* with only that record removed from what remains; no run is ever ended by
\* a rejected insert; and a run that reaches its end has handed every record
\* of the batch to the store, rejected ones included.
C5_RejectionNeverAborts ==
    /\ [](/\ ~(exc = "MySQLdb.Error" /\ site = "cursor.execute(insert)")
          /\ pc = "done" => attempted = AllRecords)
    /\ [][ rejected' # rejected =>
             /\ exc' = "none"
             /\ pc' \in {"jp2_loop", "tile_loop"}
             /\ Cardinality(jp2Todo') + Cardinality(imgTodo') + Cardinality(tileTodo')
                  >= Cardinality(jp2Todo) + Cardinality(imgTodo)
                     + Cardinality(tileTodo) - 1 ]_vars

C5_Witness ==
    /\ pc = "done"
    /\ \E r \in rejected : r[1] = "image"
    /\ \E r \in rejected : r[1] = "tile"
    /\ \E r \in attempted \ rejected : r[1] = "tile"

\* C6: the ids of the successive image inserts of processImages each exceed
\* the previous one by exactly 1, whatever the store answered, and the max-id
\* query runs at most once.
C6_IdsSequential ==
    /\ \A i \in 1..(Len(assigned) - 1) : assigned[i + 1] = assigned[i] + 1
    /\ idQueries <= 1

C6_Witness ==
    /\ Len(assigned) >= 2
    /\ \E r \in rejected : r[1] = "image"
    /\ imageTable # preexisting

C8_FirstIdAtLeastOne ==
    Len(assigned) >= 1 =>
        /\ assigned[1] >= 1
        /\ assigned[1] = (IF QueryTimeIds = {} THEN 0 ELSE MaxOf(QueryTimeIds)) + 1

\* C8 amended: the first id allocated in a run is max+1 when the image table
\* is non-empty and 0 when it is empty, so it is at least 0.
C8_FirstIdAmended ==
    Len(assigned) >= 1 =>
        /\ assigned[1] >= 0
        /\ assigned[1] = IF QueryTimeIds = {} THEN 0 ELSE MaxOf(QueryTimeIds) + 1

C8_Witness ==
    /\ Len(assigned) >= 1
    /\ QueryTimeIds = {}
    /\ assigned[1] = 0

\* C9: every tile row has the URL and no content under filesystem, the
\* content and no URL under database, both under both, and never neither.
C9_PayloadByMode ==
    \A t \in tileTable :
        /\ (storageMethod = "filesystem") => (t.url # NULL /\ t.content = NULL)
        /\ (storageMethod = "database") => (t.url = NULL /\ t.content # NULL)
        /\ (storageMethod = "both") => (t.url # NULL /\ t.content # NULL)
        /\ ~(t.url = NULL /\ t.content = NULL)

C9_Witness ==
    /\ storageMethod = "both"
    /\ \E t \in tileTable : t.url # NULL /\ t.content # NULL

\* C10: whenever processImages issues an image insert, its id is the id of no
\* image row the store holds at that moment, the jp2 rows this run inserted
\* included.
C10_NoIdClash ==
    [][ Len(assigned') > Len(assigned)
          => assigned'[Len(assigned')] \notin ImageIds(imageTable) ]_vars

C10_Witness ==
    /\ Len(assigned) >= 1
    /\ preexisting # {}
    /\ \E r \in imageTable \ preexisting :
           r.filetype = "jp2" /\ r.id \notin { assigned[i] : i \in 1..Len(assigned) }
    /\ \E r \in imageTable \ preexisting : r.filetype # "jp2"

====
